---- MODULE Spec2Model ----
(***************************************************************************)
(* FlowView: the viewport, cursor and render scheduler of the flow view    *)
(* (src/routerlicious/packages/services-client/src/historian.ts, lines     *)
(* 186-1251).  Geometry is counted in character cells: the viewport is     *)
(* charsW cells wide and rowsH rows high, a glyph is one cell wide (w =    *)
(* floor(wEst) pixels) and a row is one line high (hEst pixels).           *)
(***************************************************************************)
EXTENDS Integers, Sequences, FiniteSets, TLC

\* ------------------------------------------------------------- bounds
MaxLen == 4          \* longest document the model lets edits build
MaxJobs == 2         \* most requestAnimationFrame callbacks outstanding
MaxStream == 1       \* most local notifications awaiting delivery
MaxW == 2            \* widest viewport, in cells
MaxH == 2            \* highest viewport, in rows
MaxOut == 1          \* how far outside [0, MaxLen] the model follows cursor.pos
MaxEdits == 2        \* most edits, local and remote, in one run

\* ---------------------------------------------------------- constants
NL == "\n"
SP == " "
None == -1000        \* undefined / NaN: a value no offset of the model takes
Dead == 0            \* the identity of a segment object no longer in the sequence

\* ------------------------------------------------------- the browser
\* Whether document.caretRangeFromPoint finds a caret at the points the view
\* probes (pointerToElementOffsetWebkit returns undefined when it does not).
VARIABLE hitTest

\* --------------------------------------------------------- text helpers
Min(a, b) == IF a < b THEN a ELSE b
Max(a, b) == IF a > b THEN a ELSE b

\* String.prototype.substring(from, to) on a text held as a sequence of
\* characters, with 0-based offsets clamped as substring clamps them.
Substring(text, from, to) ==
    LET f == Max(0, Min(from, Len(text)))
        t == Max(0, Min(to, Len(text)))
    IN  SubSeq(text, Min(f, t) + 1, Max(f, t))

\* String.prototype.charAt(i): the character, or "" outside the text.
CharAt(text, i) == IF i >= 0 /\ i < Len(text) THEN text[i + 1] ELSE ""

RECURSIVE SumLens(_)
SumLens(ss) == IF ss = <<>> THEN 0 ELSE Len(Head(ss).text) + SumLens(Tail(ss))

\* ------------------------------------------------ the sequence (merge tree)
\* A segment is [id, text]; the sequence is the list of its live segments.
\* client.getLength()
GetLength(sg) == SumLens(sg)

\* mergeTree.getOffset(segment): the offset of the segment's first character.
RECURSIVE GetOffset(_, _)
GetOffset(sg, id) ==
    IF sg = <<>> THEN 0
    ELSE IF Head(sg).id = id THEN 0
    ELSE Len(Head(sg).text) + GetOffset(Tail(sg), id)

\* The identity of a newly allocated segment object: one no live segment has.
FreshId(used) == CHOOSE i \in 1..(Cardinality(used) + 1) : i \notin used

SegIds(sg) == {sg[i].id : i \in 1..Len(sg)}

\* insertText(text, pos): pos is clamped into [0, length]; an insertion inside
\* a segment splits it, the left part keeping the segment's identity.
RECURSIVE InsertAt(_, _, _, _)
InsertAt(sg, txt, pos, used) ==
    LET n == FreshId(used) IN
    IF sg = <<>> THEN << [id |-> n, text |-> txt] >>
    ELSE IF pos <= 0 THEN << [id |-> n, text |-> txt] >> \o sg
    ELSE IF pos >= Len(Head(sg).text)
         THEN << Head(sg) >> \o InsertAt(Tail(sg), txt, pos - Len(Head(sg).text), used)
    ELSE LET n2 == FreshId(used \cup {n}) IN
         << [id |-> Head(sg).id, text |-> Substring(Head(sg).text, 0, pos)],
            [id |-> n, text |-> txt],
            [id |-> n2, text |-> Substring(Head(sg).text, pos, Len(Head(sg).text))] >>
         \o Tail(sg)

InsertText(sg, txt, pos) ==
    InsertAt(sg, txt, Max(0, Min(pos, GetLength(sg))), SegIds(sg))

\* removeText(start, end): the range is clamped into [0, length]; a segment
\* cut in two keeps its identity on the left and gets a new one on the right,
\* a segment left with no text is dropped from the live sequence.
RECURSIVE RemoveRange(_, _, _, _)
RemoveRange(sg, s, e, used) ==
    IF sg = <<>> THEN <<>>
    ELSE LET h == Head(sg)
             n == Len(h.text)
             left == Substring(h.text, 0, s)
             right == Substring(h.text, e, n)
             rest == RemoveRange(Tail(sg), s - n, e - n, used)
         IN  IF e <= 0 \/ s >= n \/ s >= e THEN << h >> \o rest
             ELSE IF left # <<>> /\ right # <<>>
                  THEN << [id |-> h.id, text |-> left],
                          [id |-> FreshId(used), text |-> right] >> \o rest
             ELSE IF left # <<>> THEN << [id |-> h.id, text |-> left] >> \o rest
             ELSE IF right # <<>> THEN << [id |-> h.id, text |-> right] >> \o rest
             ELSE rest

RemoveText(sg, s, e) ==
    LET len == GetLength(sg) IN
    RemoveRange(sg, Max(0, Min(s, len)), Max(0, Min(e, len)), SegIds(sg))

\* Identities are kept canonical: after a mutation the live segments are
\* numbered in order, and a reference the view holds (prevTopSegment, a span's
\* seg) follows its segment, or becomes Dead when the segment has left.
Renumber(sg) == [i \in 1..Len(sg) |-> [id |-> i, text |-> sg[i].text]]

Remap(sg, id) ==
    IF id = None THEN None
    ELSE IF \E i \in 1..Len(sg) : sg[i].id = id
         THEN CHOOSE i \in 1..Len(sg) : sg[i].id = id
    ELSE Dead

RemapPage(sg, pg) ==
    [k \in 1..Len(pg) |->
        [j \in 1..Len(pg[k]) |-> [pg[k][j] EXCEPT !.seg = Remap(sg, @)]]]

RECURSIVE DocText(_)
DocText(sg) == IF sg = <<>> THEN <<>> ELSE Head(sg).text \o DocText(Tail(sg))

\* ------------------------------------------------- geometry, in cells
\* The layout of one block (an inner div, white-space: pre-wrap) charsW cells
\* wide: the cell of each character.  A line feed ends its row; a row that is
\* full wraps.
RECURSIVE PlaceFrom(_, _, _, _, _)
PlaceFrom(text, cw, i, row, col) ==
    IF i > Len(text) THEN <<>>
    ELSE IF text[i] = NL
         THEN << [row |-> row, col |-> col] >> \o PlaceFrom(text, cw, i + 1, row + 1, 0)
    ELSE IF col >= cw
         THEN << [row |-> row + 1, col |-> 0] >> \o PlaceFrom(text, cw, i + 1, row + 1, 1)
    ELSE << [row |-> row, col |-> col] >> \o PlaceFrom(text, cw, i + 1, row, col + 1)

Place(text, cw) == PlaceFrom(text, cw, 1, 0, 0)

\* The height of a block in rows (getBoundingClientRect().height / line height).
DivRows(text, cw) == IF text = <<>> THEN 0 ELSE Place(text, cw)[Len(text)].row + 1

FirstOf(S) == CHOOSE i \in S : \A j \in S : i <= j
LastOf(S) == CHOOSE i \in S : \A j \in S : j <= i

\* The characters of a placed block that lie on row r.
RowCells(pl, r) == {i \in 1..Len(pl) : pl[i].row = r}

\* caretRangeFromPoint at the first cell of row r of a block: the offset of the
\* first character laid out on that row.
RowStart(text, cw, r) == FirstOf(RowCells(Place(text, cw), r)) - 1

RECURSIVE DivText(_)
DivText(spans) == IF spans = <<>> THEN <<>> ELSE Head(spans).text \o DivText(Tail(spans))

RECURSIVE RowsOfDivs(_, _)
RowsOfDivs(divs, cw) ==
    IF divs = <<>> THEN 0 ELSE DivRows(DivText(Head(divs)), cw) + RowsOfDivs(Tail(divs), cw)

\* getBoundingClientRect().bottom of the k-th block of the viewport div, in rows
\* below the viewport's top edge.
DivBottom(divs, k, cw) == RowsOfDivs(SubSeq(divs, 1, k), cw)

\* The rows a span occupies inside its block: [first, last] are the indices in
\* the block's text of the span's first and last character.
SpanFirst(spans, j) == Len(DivText(SubSeq(spans, 1, j - 1))) + 1
SpanLast(spans, j) == Len(DivText(SubSeq(spans, 1, j)))

\* The top edge of the character at index a of a placed block (of the row after
\* the block's last when a is past its end).
TopOf(pl, a, top) ==
    IF a > Len(pl) THEN top + (IF pl = <<>> THEN 0 ELSE pl[Len(pl)].row + 1)
    ELSE top + pl[a].row

\* getBoundingClientRect() of span j of a block whose top edge is at row top.
SpanTop(spans, j, top, cw) == TopOf(Place(DivText(spans), cw), SpanFirst(spans, j), top)

SpanBottom(spans, j, top, cw) ==
    IF spans[j].text = <<>> THEN SpanTop(spans, j, top, cw)
    ELSE top + Place(DivText(spans), cw)[SpanLast(spans, j)].row + 1

\* The characters a..b of a placed block whose row ends within the constraint.
Fit(pl, a, b, top, constraint) == {i \in a..b : top + pl[i].row + 1 <= constraint}

\* Of the characters `on` a row, the glyphs (a line feed draws none), or the
\* row's characters when it has no glyph.
Glyphs(txt, on) == IF {i \in on : txt[i] # NL} # {} THEN {i \in on : txt[i] # NL} ELSE on

ClipFit(pl, txt, fit, a) ==
    IF fit = {} THEN None
    ELSE LastOf(Glyphs(txt, {i \in fit : pl[i].row = pl[LastOf(fit)].row})) - a

ClipIn(pl, txt, a, b, top, constraint) == ClipFit(pl, txt, Fit(pl, a, b, top, constraint), a)

\* The clip probe of the pruning step (getClientRects, then
\* caretRangeFromPoint at the right end of the last client rect whose bottom is
\* within the constraint): the offset inside span j of the last glyph on the
\* last row of the span that fits above row `constraint`, or None when no row
\* of the span fits.
ClipProbe(spans, j, top, cw, constraint) ==
    ClipIn(Place(DivText(spans), cw), DivText(spans), SpanFirst(spans, j),
           SpanLast(spans, j), top, constraint)

\* ------------------------------------------------------- renderTree
\* A span of the page: its text, the identity and start offset of its segment,
\* its offset inside the segment (0 when span.offset is not set) and whether
\* the cursor's edit span is its child.
MakeSegSpan(segText, seg, offset, startChar) ==
    [text |-> segText, seg |-> seg.id, segLen |-> Len(seg.text), segPos |-> startChar,
     offset |-> IF offset > 0 THEN offset ELSE 0, cur |-> FALSE]

\* Cursor.assign moves the one edit span: every other span loses it.
ClearCur(divs) ==
    [k \in 1..Len(divs) |-> [j \in 1..Len(divs[k]) |-> [divs[k][j] EXCEPT !.cur = FALSE]]]

AppendSpan(divs, span) == [divs EXCEPT ![Len(divs)] = Append(@, span)]

\* segmentToSpan with the cursor rel characters into the text: the text before
\* it (if any) as one span, the rest as the span holding the edit span.
SplitAtCursor(st, segText, seg, offset, startChar, rel) ==
    [st EXCEPT
        !.divs = AppendSpan(
                    IF rel > 0
                    THEN AppendSpan(ClearCur(@),
                                    MakeSegSpan(Substring(segText, 0, rel), seg, offset, startChar))
                    ELSE ClearCur(@),
                    [MakeSegSpan(Substring(segText, rel, Len(segText)), seg, rel + offset,
                                 startChar) EXCEPT !.cur = TRUE]),
        !.cursorRendered = TRUE,
        !.splits = @ + 1]

\* segmentToSpan: appends the span(s) of segText to the current inner div (the
\* last block of st.divs), splitting at the cursor when renderCursor is set and
\* the cursor lies inside the text.
SegmentToSpan(st, segText, seg, offset, startChar, renderCursor) ==
    IF renderCursor /\ st.cursorPos >= startChar + offset
                    /\ st.cursorPos < startChar + offset + Len(segText)
    THEN SplitAtCursor(st, segText, seg, offset, startChar, st.cursorPos - (startChar + offset))
    ELSE [st EXCEPT !.divs = AppendSpan(@, MakeSegSpan(segText, seg, offset, startChar))]

\* renderFirstSegment, the probe loop: walks down the rows of the probe copy of
\* the segment, hit-testing the first cell of each, until the offset found
\* reaches `start`, the probe leaves the block or the hit test finds no caret
\* (the else branch of `if (elmOff)`); the result is prevOffset.
RECURSIVE ProbeRows(_, _, _, _, _)
ProbeStep(text, start, cw, r, offset, hit) ==
    IF hit < start THEN ProbeRows(text, start, cw, r + 1, hit) ELSE offset

ProbeRows(text, start, cw, r, offset) ==
    IF r >= DivRows(text, cw) \/ ~hitTest THEN offset
    ELSE ProbeStep(text, start, cw, r, offset, RowStart(text, cw, r))

\* renderFirstSegment, the trim: back to just after the nearest preceding space.
RECURSIVE TrimWord(_, _)
TrimWord(text, offset) ==
    IF offset >= 1 /\ CharAt(text, offset - 1) # SP THEN TrimWord(text, offset - 1) ELSE offset

\* renderFirstSegment: the offset inside the segment at which rendering starts.
RenderFirstSegment(text, start, cw) == TrimWord(text, ProbeRows(text, start, cw, 0, 0))

\* The pruning step's word trim of the clip offset, on the segment's text.
RECURSIVE TrimClip(_, _)
TrimClip(text, segClip) ==
    IF segClip > 0 /\ CharAt(text, segClip) # SP /\ CharAt(text, segClip) # NL
    THEN TrimClip(text, segClip - 1)
    ELSE segClip

SegById(sg, id) == sg[CHOOSE i \in 1..Len(sg) : sg[i].id = id]

RemoveAt(s, i) == SubSeq(s, 1, i - 1) \o SubSeq(s, i + 1, Len(s))

\* A span of lastPruned that fits is moved to the inner div.
Moved(lp, j, sg) ==
    [lp EXCEPT !.st.divs = AppendSpan(@, lp.left[j]),
               !.left = RemoveAt(@, j),
               !.lastSeg = lp.left[j].seg,
               !.lastSegOff = Len(SegById(sg, lp.left[j].seg).text)]

\* The span that straddles the constraint is re-rendered up to segClip.
Clipped(lp, textSeg, segPos, segClip) ==
    [lp EXCEPT !.st = IF segClip > 0
                      THEN SegmentToSpan(@, Substring(textSeg.text, 0, segClip), textSeg, 0,
                                         segPos, TRUE)
                      ELSE @,
               !.lastSeg = textSeg.id,
               !.lastSegOff = segClip]

\* The clip (lines 629-644).  pointerToElementOffsetWebkit returns undefined
\* when no caret is found, and elmOffToSegOff then reads elmOff.elm of it: the
\* TypeError leaves renderTree with the page as it stands.
ClipAt(lp, textSeg, segPos, hit) ==
    IF hit = None THEN lp
    ELSE IF ~hitTest THEN [lp EXCEPT !.failed = TRUE]
    ELSE Clipped(lp, textSeg, segPos, TrimClip(textSeg.text, hit + 1))

\* No span was clipped in the pass.
NoClip == [at |-> None, cut |-> None, text |-> << >>, offset |-> 0, segPos |-> 0]

\* What the clip of a span did: segClip as the probe gave it (at) and as the
\* trim left it (cut), with the span's text and place.
Noted(lp, span, hit) ==
    IF hit = None \/ lp.failed THEN lp
    ELSE [lp EXCEPT !.clip = [at |-> hit + 1, cut |-> lp.lastSegOff, text |-> span.text,
                              offset |-> span.offset, segPos |-> span.segPos]]

\* The re-insertion loop over lastPruned.children (a live list: a span moved to
\* the inner div leaves it, and the index still advances).  lp.st.divs is the
\* page with the inner div last; lp.left are the children lastPruned still has;
\* top is the row at which lastPruned, appended to the page, starts.
RECURSIVE Reinsert(_, _, _, _, _)
ReinsertAt(lp, j, top, sg, cw, ch) ==
    IF SpanBottom(lp.left, j, top, cw) <= ch
    THEN Reinsert(Moved(lp, j, sg), j, sg, cw, ch)
    ELSE IF (ch - SpanTop(lp.left, j, top, cw)) > 1
         THEN Noted(ClipAt(lp, SegById(sg, lp.left[j].seg), lp.left[j].segPos,
                           ClipProbe(lp.left, j, top, cw, ch)),
                    lp.left[j], ClipProbe(lp.left, j, top, cw, ch))
    ELSE lp

Reinsert(lp, i, sg, cw, ch) ==
    IF i >= Len(lp.left) THEN lp
    ELSE ReinsertAt(lp, i + 1, RowsOfDivs(lp.st.divs, cw), sg, cw, ch)

\* A variant of the scan that finds every block fitting; no specification
\* below uses it.
PruneNone(divs, k, cw, ch) == k + 1

\* The index of the topmost block, scanning up from block k, whose bottom edge
\* is below the constraint (the while loop over pruneDiv); k + 1 when block k
\* fits.
RECURSIVE PruneFrom(_, _, _, _)
PruneFrom(divs, k, cw, ch) ==
    IF k >= 1 /\ DivBottom(divs, k, cw) > ch THEN PruneFrom(divs, k - 1, cw, ch) ELSE k + 1

\* The end of the pruning block: lastPruned leaves the page, and
\* viewportEndChar is set when the loop chose a last segment.
Pruned(lp, k0, sg) ==
    IF lp.failed
    THEN [lp.st EXCEPT !.go = FALSE, !.failed = TRUE, !.divs = Append(@, lp.left)]
    ELSE
    [lp.st EXCEPT
        !.go = FALSE,
        !.pruned = TRUE,
        !.firstOff = (k0 = 1),
        !.firstLeft = IF k0 = 1 THEN lp.left ELSE <<>>,
        !.clip = lp.clip,
        !.viewportEndChar = IF lp.lastSeg # None
                            THEN GetOffset(sg, lp.lastSeg) + lp.lastSegOff
                            ELSE @]

\* The blocks from k0 on are removed (the inner div, the last block, stays) and
\* lastPruned, block k0, is appended for the re-insertion loop.
PruneAt(st, d1, k0, sg, cw, ch) ==
    IF k0 > Len(d1) - 1 THEN [st EXCEPT !.divs = d1, !.go = (Len(d1) = 1)]
    ELSE Pruned(Reinsert([st |-> [st EXCEPT !.divs = SubSeq(d1, 1, k0 - 1) \o << d1[Len(d1)] >>],
                          left |-> d1[k0], lastSeg |-> None, lastSegOff |-> 0,
                          failed |-> FALSE, clip |-> NoClip],
                         0, sg, cw, ch),
                k0, sg)

PruneDivs(st, d1, sg, cw, ch) == PruneAt(st, d1, PruneFrom(d1, Len(d1) - 1, cw, ch), sg, cw, ch)

\* The pruning block of renderSegment (lines 588-657), entered with the page in
\* st.divs: a fresh inner div if the current one has children, then the prune.
Prune(st, sg, cw, ch) ==
    PruneDivs(st, IF Len(st.divs[Len(st.divs)]) > 0 THEN Append(st.divs, <<>>) ELSE st.divs,
              sg, cw, ch)

\* renderSegment, the top of the callback: a first segment other than the
\* previous pass's first resets splitTopSeg.
TopSegment(st, seg) ==
    IF st.firstSeg /\ seg.id # st.prevTopSegment
    THEN [st EXCEPT !.splitTopSeg = FALSE, !.prevTopSegment = seg.id]
    ELSE st

\* adjustedTopChar as the callback leaves it for a segment entered at `start`.
AdjustedTop(st, start, segOffset, tc) ==
    IF start > 0
    THEN (IF st.splitTopSeg THEN tc + (segOffset - start) ELSE tc - start)
    ELSE (IF st.firstSeg THEN tc ELSE st.adjustedTopChar)

\* renderSegment, the end of the callback: a line feed ends the inner div, and
\* the page is pruned once it holds a viewport of characters or the sequence
\* has ended.
Overflow(st, segText, last, sg, cw, ch) ==
    IF (st.charLength > ch * cw) \/ last
    THEN IF (RowsOfDivs(st.divs, cw) > ch) \/ last THEN Prune(st, sg, cw, ch) ELSE st
    ELSE st

FreshDiv(st, segText) ==
    IF CharAt(segText, Len(segText) - 1) = NL THEN [st EXCEPT !.divs = Append(@, <<>>)] ELSE st

\* renderSegment from segOffset on: the cursor is kept at or after the adjusted
\* top when the traversal starts inside the segment, and the text is rendered.
RenderFrom(st, seg, segPos, start, segOffset, atc, segText, last, sg, cw, ch) ==
    Overflow(FreshDiv(SegmentToSpan([st EXCEPT !.adjustedTopChar = atc,
                                               !.cursorPos = IF start > 0 /\ @ < atc THEN atc ELSE @,
                                               !.firstSeg = FALSE,
                                               !.charLength = @ + Len(segText)],
                                    segText, seg, segOffset, segPos, TRUE),
                      segText),
             segText, last, sg, cw, ch)

RenderAtOffset(st, seg, segPos, start, segOffset, last, sg, tc, cw, ch) ==
    RenderFrom(st, seg, segPos, start, segOffset, AdjustedTop(st, start, segOffset, tc),
               Substring(seg.text, segOffset, Len(seg.text)), last, sg, cw, ch)

RenderTop(st, seg, segPos, start, last, sg, tc, cw, ch) ==
    RenderAtOffset(st, seg, segPos, start,
                   IF start > 0 /\ st.splitTopSeg THEN RenderFirstSegment(seg.text, start, cw) ELSE 0,
                   last, sg, tc, cw, ch)

\* renderSegment: the traversal callback, for one text segment at segPos,
\* `start` being the offset of the traversal's start inside it (<= 0 for every
\* segment but the first) and `last` whether it is the sequence's last.
RenderSegment(st, seg, segPos, start, last, sg, tc, cw, ch) ==
    RenderTop(TopSegment(st, seg), seg, segPos, start, last, sg, tc, cw, ch)

\* mergeTree.mapRange from pos: the callback on every segment that reaches
\* past pos, in order, until it returns false.
RECURSIVE MapRange(_, _, _, _, _, _, _, _)
MapRange(st, rest, segPos, start, sg, tc, cw, ch) ==
    IF rest = <<>> \/ ~st.go THEN st
    ELSE MapRange(IF start < Len(Head(rest).text)
                  THEN RenderSegment(st, Head(rest), segPos, start, Tail(rest) = <<>>,
                                     sg, tc, cw, ch)
                  ELSE st,
                  Tail(rest), segPos + Len(Head(rest).text), start - Len(Head(rest).text),
                  sg, tc, cw, ch)

\* The length of span.innerText: the span's text and, when the cursor's edit
\* span is its child and visible, the edit span's one character.
InnerTextLen(span, vis) == Len(span.text) + (IF span.cur /\ vis THEN 1 ELSE 0)

\* findLastChar (clipOffset is never set on a span).
FindLastChar(divs, vis) ==
    LET n == Len(divs)
        k == IF Len(divs[n]) = 0 THEN n - 1 ELSE n
    IN  IF n = 0 \/ k = 0 THEN -1
        ELSE IF Len(divs[k]) = 0 THEN -1
        ELSE LET lastSpan == divs[k][Len(divs[k])]
             IN  lastSpan.segPos + InnerTextLen(lastSpan, vis) - 1

\* The layout state renderTree starts its traversal with.
StartState(cur, atc0, prevTop) ==
    [divs |-> << <<>> >>, firstOff |-> FALSE, firstLeft |-> <<>>,
     firstSeg |-> TRUE, splitTopSeg |-> TRUE, charLength |-> 0,
     cursorRendered |-> FALSE, cursorPos |-> cur, adjustedTopChar |-> atc0,
     viewportEndChar |-> -1, prevTopSegment |-> prevTop, go |-> TRUE,
     pruned |-> FALSE, splits |-> 0, failed |-> FALSE, clip |-> NoClip]

\* viewportEndChar after the traversal (lines 664-673): what pruning left, else
\* findLastChar, else charLength + adjustedTopChar (NaN while that is undefined).
EndChar(st, vis) ==
    IF st.viewportEndChar < 0
    THEN LET endChar == FindLastChar(st.divs, vis)
         IN  IF endChar >= 0 THEN endChar
             ELSE IF st.adjustedTopChar = None THEN None
             ELSE st.charLength + st.adjustedTopChar
    ELSE st.viewportEndChar

\* The children of the first block made by the pass (firstDiv).
FirstKids(st) == IF st.firstOff THEN st.firstLeft ELSE st.divs[1]

\* The cursor is moved to the first span (lines 674-684).
Snaps(st, vec) ==
    ((~st.cursorRendered) \/ (vec # None /\ st.cursorPos > vec)) /\ Len(FirstKids(st)) > 0

\* What a layout pass leaves: the page and the fields of the view it writes.
Laid(st, vec, snap, firstSpan) ==
    [page |-> IF snap
              THEN (IF st.firstOff THEN ClearCur(st.divs)
                    ELSE [ClearCur(st.divs) EXCEPT ![1][1].cur = TRUE])
              ELSE st.divs,
     cursorPos |-> IF snap THEN firstSpan.segPos + firstSpan.offset ELSE st.cursorPos,
     adjustedTopChar |-> st.adjustedTopChar,
     viewportEndChar |-> vec,
     prevTopSegment |-> st.prevTopSegment,
     charLength |-> st.charLength,
     cursorRendered |-> st.cursorRendered,
     cursorIn |-> st.cursorPos,
     snapped |-> snap,
     pruned |-> st.pruned,
     splits |-> st.splits,
     failed |-> st.failed,
     clip |-> st.clip]

Settle(st, vec) == Laid(st, vec, Snaps(st, vec), FirstKids(st)[1])

\* An exception out of the traversal skips the rest of renderTree: the page and
\* the fields stay as the traversal left them (viewportEndChar as line 447 or
\* pruning set it).
Thrown(st) == Laid(st, st.viewportEndChar, FALSE, << >>)

AfterTraversal(st, vis) == IF st.failed THEN Thrown(st) ELSE Settle(st, EndChar(st, vis))

\* renderTree(div, pos, client, context): the layout pass.
RenderTree(pos, sg, tc, cur, atc0, prevTop, cw, ch, vis) ==
    AfterTraversal(MapRange(StartState(cur, atc0, prevTop), sg, 0, pos, sg, tc, cw, ch), vis)

\* ------------------------------------------------------ pixelsAtOffset
\* The call of pixelsAtOffset(span, offset, w) in progress, one hit test per
\* step.  A span is given by the lines of its client rects, each line the
\* pixel widths of its glyphs; every rect has left = 0 and rects are numbered
\* from 0 as span.getClientRects() numbers them.
VARIABLE probe

Epsilon == 10                \* (over - under) < 10 ends the bracketing loop
GlyphWidths == {5, 11}       \* pixel widths of glyphs
AvgWidths == {5, 8, 11}      \* w, the view's estimate of a glyph's width
MaxRun == 3                  \* longest run of glyphs
MaxRects == 2                \* most client rects of a span

RECURSIVE SumWidths(_)
SumWidths(ws) == IF ws = << >> THEN 0 ELSE Head(ws) + SumWidths(Tail(ws))

\* rects[r].right
RectRight(lines, r) == SumWidths(lines[r + 1])

RECURSIVE RectFirst(_, _)
\* The offset in the span of the first glyph of rect r.
RectFirst(lines, r) == IF r = 0 THEN 0 ELSE Len(lines[r]) + RectFirst(lines, r - 1)

RECURSIVE CaretFrom(_, _, _, _)
\* The caret nearest to x in a line of glyphs: the number of glyphs whose
\* middle lies at or left of x, glyph j starting at pixel s.
CaretFrom(ws, j, s, x) ==
    IF j > Len(ws) \/ 2 * x < 2 * s + ws[j] THEN j - 1
    ELSE CaretFrom(ws, j + 1, s + ws[j], x)

\* elmOffToSegOff(pointerToElementOffsetWebkit(x, y), span) for y in rect r.
XyOffset(lines, r, x) == RectFirst(lines, r) + CaretFrom(lines[r + 1], 1, 0, x)

NoProbe ==
    [pc |-> "idle", lines |-> << >>, w |-> 0, offset |-> 0, lo |-> 0, hi |-> 0,
     best |-> -1, bestOffset |-> -1, x |-> 0, under |-> 0, over |-> 0,
     diffOffset |-> 0, xlo |-> -1, xcount |-> 0, scanned |-> 0, left |-> 0]

Call(lines, w, offset) ==
    [NoProbe EXCEPT !.pc = "call", !.lines = lines, !.w = w, !.offset = offset]

\* return { left, top: rects[best].top }
Return(p, left, best) == [p EXCEPT !.pc = "done", !.left = left, !.best = best]

\* offset === 0, else the locals before the search over the rects
Entered(p) ==
    IF p.offset = 0 THEN Return(p, 0, 0)
    ELSE [p EXCEPT !.pc = "rects", !.lo = 0, !.hi = Len(p.lines) - 1]

\* One turn of while (lo <= hi), probing the middle rect at left + halfwidth.
RectTurn(p) ==
    LET mid == p.lo + ((p.hi - p.lo) \div 2)
        xyOffset == XyOffset(p.lines, mid, p.w \div 2)
    IN  IF xyOffset <= p.offset
        THEN [p EXCEPT !.best = IF p.best < 0 \/ p.bestOffset < xyOffset
                                THEN mid ELSE p.best,
                       !.bestOffset = IF p.best < 0 \/ p.bestOffset < xyOffset
                                      THEN xyOffset ELSE p.bestOffset,
                       !.lo = mid + 1]
        ELSE [p EXCEPT !.hi = mid - 1]

\* After the search: rects[best] is undefined when no rect was chosen, and
\* reading it throws; otherwise return the rect's corner or start to bracket.
RectChosen(p) ==
    IF p.best < 0 THEN [p EXCEPT !.pc = "thrown"]
    ELSE IF p.offset - p.bestOffset = 0 THEN Return(p, 0, p.best)
    ELSE [p EXCEPT !.pc = "bracket",
                   !.diffOffset = p.offset - p.bestOffset,
                   !.x = (p.offset - p.bestOffset) * p.w,
                   !.under = 0,
                   !.over = RectRight(p.lines, p.best)]

\* One turn of while (diffOffset !== 0) and what follows when it ends: a
\* return, or the locals before the for loop of the linear scan.
BracketTurn(p) ==
    LET d == XyOffset(p.lines, p.best, p.x) - p.offset
        over == IF d > 0 THEN p.x ELSE p.over
        under == IF d < 0 THEN p.x ELSE p.under
        x1 == p.x - (d * p.w)
        x2 == IF x1 <= under THEN x1 + 1 ELSE IF x1 >= over THEN x1 - 1 ELSE x1
        q == [p EXCEPT !.diffOffset = d, !.over = over, !.under = under]
    IN  IF (over - under) < Epsilon
        THEN IF d # 0
             THEN [q EXCEPT !.pc = "scan", !.x = under, !.xlo = -1, !.xcount = 0]
             ELSE Return(q, p.x, p.best)
        ELSE IF d # 0 THEN [q EXCEPT !.x = x2] ELSE Return(q, x2, p.best)

\* One turn of for (x = under; x <= over; x++) and the return after it, where
\* x = xlo + Math.round(xcount / 2) on the break.
ScanTurn(p) ==
    IF p.x > p.over THEN Return(p, p.x, p.best)
    ELSE LET d == XyOffset(p.lines, p.best, p.x) - p.offset
             xlo == IF d = 0 /\ p.xlo < 0 THEN p.x ELSE p.xlo
             xcount == IF d = 0 THEN p.xcount + 1 ELSE p.xcount
             q == [p EXCEPT !.diffOffset = d, !.xlo = xlo, !.xcount = xcount,
                            !.scanned = p.scanned + 1]
         IN  IF xlo >= 0 /\ d = 1 THEN Return(q, xlo + ((xcount + 1) \div 2), p.best)
             ELSE [q EXCEPT !.x = p.x + 1]

\* ------------------------------------------------------------ Historian
\* One call of the Historian in progress.  RestWrapper is outside the module:
\* each of its requests settles once, resolved with the server's reply or
\* rejected with an error, as the environment chooses.
VARIABLE historian

MaxEntries == 2              \* most entries of a tree
Errors == {400, 404}         \* what a request can be rejected with

\* includeBlobs (line 156), as strings of characters
DotAttributes == << ".", "a", "t", "t", "r", "i", "b", "u", "t", "e", "s" >>
DotBlobs == << ".", "b", "l", "o", "b", "s" >>
DotMessages == << ".", "m", "e", "s", "s", "a", "g", "e", "s" >>
Header == << "h", "e", "a", "d", "e", "r" >>
IncludeBlobs == << DotAttributes, DotBlobs, DotMessages, Header >>

\* String.prototype.endsWith
StringEndsWith(value, ending) ==
    /\ Len(ending) <= Len(value)
    /\ SubSeq(value, Len(value) - Len(ending) + 1, Len(value)) = ending

\* An endsWith that accepts every value.
EndsWithAny(value, endings) == TRUE

\* endsWith(value, endings) (lines 4-12)
EndsWith(value, endings) ==
    \E k \in 1..Len(endings) : StringEndsWith(value, endings[k])

\* Paths of tree entries: some that end as includeBlobs asks, some that do not.
Paths ==
    { Header,
      << "a" >> \o DotBlobs,
      << "d", "/" >> \o DotMessages,
      << "a" >> \o DotAttributes,
      Header \o << "s" >>,
      << "b", "l", "o", "b", "s" >> }

\* The trees the server can answer with: the entry at position i has sha i.
Trees ==
    UNION { [1..n -> [type : {"blob", "tree"}, path : Paths]] : n \in 0..MaxEntries }

\* A promise: pending, resolved with a value or rejected with an error.
Pending == [state |-> "pending", value |-> 0]
Resolved(v) == [state |-> "resolved", value |-> v]
Rejected(e) == [state |-> "rejected", value |-> e]

\* No call made: historianApi and the tree the server holds are fixed at
\* construction; sent is the requests issued so far, replies what each has
\* settled with, result the promise the call returned.
NoCall(api, tree) ==
    [historianApi |-> api, tree |-> tree, pc |-> "idle", sent |-> << >>,
     replies |-> << >>, result |-> Pending]

\* A catch that resolves to the empty list whatever the error.
CaughtAll(reply) ==
    IF reply.state = "resolved" THEN reply ELSE Resolved(<< >>)

\* getCommits' catch (line 103) applied to the settled /commits request.
Caught(reply) ==
    IF reply.state = "resolved" THEN reply
    ELSE IF reply.value = 400 THEN Resolved(<< >>) ELSE Rejected(reply.value)

\* The positions of the entries getHeaderDirect asks the blob of (lines 160-165).
RECURSIVE BlobsP(_, _)
BlobsP(tree, i) ==
    IF i > Len(tree) THEN << >>
    ELSE (IF tree[i].type = "blob" /\ EndsWith(tree[i].path, IncludeBlobs)
          THEN << i >> ELSE << >>) \o BlobsP(tree, i + 1)

\* Promise.all over the blob requests (replies from position 2 on), then the
\* return of getHeaderDirect: rejected with the rejection that came first,
\* resolved with every blob in the order of the promises once all are in.
All(replies, first, tree) ==
    IF first.state = "rejected" THEN first
    ELSE IF \E k \in 2..Len(replies) : replies[k].state = "pending" THEN Pending
    ELSE Resolved([blobs |-> [k \in 1..(Len(replies) - 1) |-> replies[k + 1].value],
                   tree |-> tree])

\* ------------------------------------------------------------ FlowView
VARIABLES
    segs,             \* the sequence: its live segments, in order
    stream,           \* notifications of local edits not yet delivered ("op" events)
    cursorPos,        \* cursor.pos
    topChar,          \* FlowView.topChar
    adjustedTopChar,  \* FlowView.adjustedTopChar (None: not yet set)
    viewportEndChar,  \* FlowView.viewportEndChar (None: not yet set, or NaN)
    prevTopSegment,   \* FlowView.prevTopSegment (None: not yet set)
    page,             \* the children of viewportDiv: blocks of spans
    charsW,           \* viewportRect.width / floor(wEst) = charsPerLine
    rowsH,            \* viewportRect.height / hEst
    pendingRender,    \* FlowView.pendingRender
    raf,              \* requestAnimationFrame callbacks outstanding, in order
    timers,           \* ticking, wheelTicking, what their timers captured, the timers outstanding
    lastVerticalX,    \* FlowView.lastVerticalX, as a column (-1: none)
    loaded,           \* loadFinished has run
    edits,            \* history: the number of edits made, local and remote
    awaiting,         \* history: a notification was delivered and no layout ran since
    blink,            \* the Cursor's blink task: off, blinkCount, blinkTimer, the marker's visibility
    last              \* history: what the last step did

vars == << segs, stream, cursorPos, topChar, adjustedTopChar, viewportEndChar,
           prevTopSegment, page, charsW, rowsH, pendingRender, raf, timers,
           lastVerticalX, loaded, hitTest, probe, historian, blink, edits, awaiting, last >>

\* updateGeometry: viewportCharCount = floor((height / hEst) * charsPerLine)
ViewportCharCount(cw, ch) == ch * cw

\* One more edit of the run.  Events are followed from the first render
\* (loadFinished) on.
Edit ==
    /\ loaded
    /\ edits < MaxEdits
    /\ edits' = edits + 1

\* A mutation of the sequence, as the view sees it: the new segments, and the
\* references the view holds following them.
Mutate(sg) ==
    /\ segs' = Renumber(sg)
    /\ prevTopSegment' = Remap(sg, prevTopSegment)
    /\ page' = RemapPage(sg, page)

\* Variants of the rebase rules, of the client test and of the flag reset; no
\* specification below uses them.
RebaseInsertAfter(pos, op) == IF op.pos1 < pos THEN pos + op.len ELSE pos

RebaseRemoveShift(pos, op) == IF op.pos2 <= pos THEN pos - (op.pos2 - op.pos1) ELSE pos

IsAnyClient(msg) == TRUE

PendingKept == pendingRender

\* The cursor rebase of the queued render job (queueRender, lines 1200-1213)
RebaseInsert(pos, op) == IF op.pos1 <= pos THEN pos + op.len ELSE pos

RebaseRemove(pos, op) ==
    IF op.pos2 <= pos THEN pos - (op.pos2 - op.pos1)
    ELSE IF pos >= op.pos1 THEN op.pos1
    ELSE pos

\* msg.clientId !== this.client.longClientId
IsRemote(msg) == msg.remote

Rebase(pos, msg) ==
    IF IsRemote(msg)
    THEN (IF msg.op.type = "insert" THEN RebaseInsert(pos, msg.op)
          ELSE IF msg.op.type = "remove" THEN RebaseRemove(pos, msg.op)
          ELSE pos)
    ELSE pos

\* An early return that compares the requested top with the current one only.
EarlyReturnSame(tcArg, changed) ==
    (topChar = tcArg) /\ ~changed

\* render's early return: nothing to do for the same top, unless changed.
EarlyReturn(tcArg, changed) ==
    ((topChar = tcArg) \/ ((topChar = 0) /\ (tcArg <= 0))) /\ ~changed

\* render's clamp of the requested top (lines 1121-1127)
ClampTop(tcArg, len, cw) ==
    IF tcArg >= len THEN (IF len - cw < 0 THEN 0 ELSE len - cw)
    ELSE IF tcArg < 0 THEN 0
    ELSE tcArg

\* A variant of the traversal that removes the first character; no
\* specification below uses it.
TraversedCut(sg) == RemoveText(sg, 0, 1)

\* The sequence as mapRange({ leaf: renderSegment }) leaves it: the callback
\* reads segments and calls getOffset, and issues no insertText or removeText.
Traversed(sg) == sg

\* What a step records of the layout pass it ran: whether a span claimed the
\* cursor (cursorRendered), cursor.pos and charLength when the traversal ended.
NoPass ==
    [claimed |-> FALSE, cin |-> None, chars |-> 0, failed |-> FALSE, clip |-> NoClip,
     assigned |-> FALSE]

\* assigned: the pass called cursor.assign (lines 505 and 682).
PassOf(rt) == [claimed |-> rt.cursorRendered, cin |-> rt.cursorIn, chars |-> rt.charLength,
               failed |-> rt.failed, clip |-> rt.clip,
               assigned |-> (rt.cursorRendered \/ rt.snapped)]

\* ------------------------------------------------------------ Cursor
BlinkCount == 30             \* blinkCursor: this.blinkCount = 30

\* The blink task after the Cursor's constructor: no timer, the marker shown
\* (makeSpan ends with show()).  followed: the task's steps are followed; where
\* they are not, the marker's visibility at paint time is an input of the pass.
\* blinkTimer is "none" (undefined), "live" (the id of a timer outstanding) or
\* "spent" (the id of a timer that has fired); pending counts the blinker
\* timers outstanding, toggles the blinker's runs since the last assign.
NoBlink ==
    [followed |-> FALSE, off |-> TRUE, blinkCount |-> 0, blinkTimer |-> "none",
     pending |-> 0, visible |-> TRUE, toggles |-> 0]

\* An assign that does not clear the timer it holds.
AssignKeeping(b) ==
    [b EXCEPT !.blinkCount = BlinkCount, !.off = TRUE, !.blinkTimer = "live",
              !.pending = IF @ < 2 THEN @ + 1 ELSE @, !.toggles = 0]

\* Cursor.assign: clearTimeout(blinkTimer) if one is held, then blinkCursor().
Assign(b) ==
    [b EXCEPT !.blinkCount = BlinkCount, !.off = TRUE, !.blinkTimer = "live",
              !.pending = (IF b.blinkTimer = "live" THEN @ - 1 ELSE @) + 1,
              !.toggles = 0]

\* Cursor.blinker, the callback of the timer held: show or hide, flip off, and
\* either count down and set the next timer, or show and stop.
Blinked(b) ==
    IF b.blinkCount > 0
    THEN [b EXCEPT !.visible = b.off, !.off = ~b.off, !.blinkCount = @ - 1,
                   !.blinkTimer = "live", !.toggles = @ + 1]
    ELSE [b EXCEPT !.visible = TRUE, !.off = ~b.off, !.blinkTimer = "spent",
                   !.pending = @ - 1, !.toggles = @ + 1]

\* The visibility of the marker a layout pass can meet.
Paint == IF blink.followed THEN {blink.visible} ELSE BOOLEAN

Kept(cur) ==
    [laidOut |-> FALSE, topChar |-> topChar, cursorPos |-> cur,
     adjustedTopChar |-> adjustedTopChar, viewportEndChar |-> viewportEndChar,
     prevTopSegment |-> prevTopSegment, page |-> page, pass |-> NoPass, segs |-> segs]

Rendered(tc, rt) ==
    [laidOut |-> ~rt.failed, topChar |-> tc, cursorPos |-> rt.cursorPos,
     adjustedTopChar |-> rt.adjustedTopChar, viewportEndChar |-> rt.viewportEndChar,
     prevTopSegment |-> rt.prevTopSegment, page |-> rt.page, pass |-> PassOf(rt),
     segs |-> Traversed(segs)]

RenderAt(tc, cur, cw, ch, vis) ==
    Rendered(tc, RenderTree(tc, segs, tc, cur, adjustedTopChar, prevTopSegment, cw, ch, vis))

\* FlowView.render(topChar, changed), for a given cursor, geometry and cursor
\* visibility: the fields it leaves, and whether a layout pass ran.
Render(tcArg, changed, cur, cw, ch, vis) ==
    IF EarlyReturn(tcArg, changed) THEN Kept(cur)
    ELSE RenderAt(ClampTop(tcArg, GetLength(segs), cw), cur, cw, ch, vis)

\* A remote op delivered to the view whose rebase has not been applied.
Unrebased == \E i \in 1..Len(raf) : raf[i].kind = "msg" /\ raf[i].msg.remote

NoOp == [type |-> "none", pos1 |-> 0, pos2 |-> 0, len |-> 0]

\* The record of a step that is not the callback of a render job: whether it
\* ran a layout pass.
Quiet(laidOut) ==
    [job |-> "none", layout |-> laidOut, c0 |-> None, lc |-> None, fold |-> None,
     pass |-> NoPass, scroll |-> FALSE]

\* The record of a handler's call of render.
Seen(r) == [Quiet(r.laidOut) EXCEPT !.pass = r.pass]

\* The view's fields after render(tcArg, changed) called with cursor.pos = cur.
SetView(r) ==
    /\ cursorPos' = r.cursorPos
    /\ topChar' = r.topChar
    /\ adjustedTopChar' = r.adjustedTopChar
    /\ viewportEndChar' = r.viewportEndChar
    /\ prevTopSegment' = r.prevTopSegment
    /\ page' = r.page
    /\ segs' = r.segs
    /\ awaiting' = (awaiting /\ ~r.laidOut)
    /\ blink' = IF r.pass.assigned THEN Assign(blink) ELSE blink

\* ---------------------------------------------------- render scheduler
\* The job a requestAnimationFrame callback stands for.  expect is history:
\* for a job queued for a remote op, cursor.pos when the job was queued with
\* the rebase rule applied for every remote op delivered since (the job's own
\* first); None once cursor.pos has changed in any other way.
LocalJob == [kind |-> "local", msg |-> [remote |-> FALSE, op |-> NoOp], expect |-> None]
MsgJob(msg, c) == [kind |-> "msg", msg |-> msg,
                   expect |-> IF msg.remote THEN Rebase(c, msg) ELSE None]

\* A remote op is recorded against every outstanding job queued for a remote op.
Batched(q, msg) ==
    [i \in 1..Len(q) |->
        IF msg.remote /\ q[i].expect # None
        THEN [q[i] EXCEPT !.expect = Rebase(@, msg)] ELSE q[i]]

\* A cursor move made outside the rebase path ends the expectation recorded
\* with each outstanding job.
Unclean(q) == [i \in 1..Len(q) |-> [q[i] EXCEPT !.expect = None]]

Mark(q, newCur) == IF newCur # cursorPos THEN Unclean(q) ELSE q

\* A handler's call of render: the view after it.
Show(r) ==
    /\ SetView(r)
    /\ raf' = Mark(raf, r.cursorPos)
    /\ last' = Seen(r)

\* A timer callback's call of render and the reset of its flag after it, which
\* an exception out of render skips: the timer is spent (fired), its flag stays.
TimerShow(r, fired, reset) ==
    /\ Show(r)
    /\ timers' = IF r.pass.failed THEN fired ELSE reset

\* The same for the page-scroll timer, whose step the record names.
ScrollShow(r, fired, reset) ==
    /\ SetView(r)
    /\ raf' = Mark(raf, r.cursorPos)
    /\ last' = [Seen(r) EXCEPT !.scroll = TRUE]
    /\ timers' = IF r.pass.failed THEN fired ELSE reset

\* The origin of a job, as the record of a step names it.
JobOrigin(job) ==
    IF job.kind = "local" THEN "refresh"
    ELSE IF job.msg.remote THEN job.msg.op.type
    ELSE IF job.msg.op.type = "insert" THEN "typed"
    ELSE "erased"

\* this.pendingRender after the callback of a job has started (lines 1190, 1199)
PendingAfterJob == FALSE

\* queueRender(msg), up to the scheduling: (!pendingRender) && msg && msg.op
QueueRender(msg) ==
    IF ~pendingRender
    THEN /\ pendingRender' = TRUE
         /\ raf' = Append(raf, MsgJob(msg, cursorPos))
    ELSE /\ pendingRender' = pendingRender
         /\ raf' = Batched(raf, msg)

\* localQueueRender()
LocalQueueRender(q) ==
    /\ pendingRender' = TRUE
    /\ raf' = Append(q, LocalJob)

\* cursor.pos after the rebase the callback of a job starts with.
JobCursor(job) == IF job.kind = "msg" THEN Rebase(cursorPos, job.msg) ELSE cursorPos

JobLayout(job, lc, r) ==
    /\ SetView(r)
    /\ pendingRender' = PendingAfterJob
    /\ raf' = Mark(Tail(raf), r.cursorPos)
    /\ last' = [job |-> JobOrigin(job), layout |-> TRUE, c0 |-> cursorPos,
                lc |-> lc, fold |-> job.expect, pass |-> r.pass,
                scroll |-> FALSE]

JobRebased(job, lc, vis) == JobLayout(job, lc, Render(topChar, TRUE, lc, charsW, rowsH, vis))

\* The callback of a queued job runs (a display refresh): the rebase for a
\* remote message, then render(this.topChar, true).
RunJob ==
    /\ loaded
    /\ raf # <<>>
    /\ \E vis \in Paint : JobRebased(Head(raf), JobCursor(Head(raf)), vis)
    /\ UNCHANGED << hitTest, probe, historian, edits, stream, charsW, rowsH, timers, lastVerticalX, loaded >>

\* A remote insertion is applied to the sequence and its "op" event reaches
\* queueRender.
RemoteInsert(txt, p) ==
    /\ Edit
    /\ GetLength(segs) + Len(txt) <= MaxLen
    /\ (pendingRender \/ Len(raf) < MaxJobs)
    /\ Mutate(InsertText(segs, txt, p))
    /\ QueueRender([remote |-> TRUE,
                    op |-> [type |-> "insert", pos1 |-> p, pos2 |-> 0, len |-> Len(txt)]])
    /\ awaiting' = TRUE
    /\ last' = Quiet(FALSE)
    /\ UNCHANGED << hitTest, probe, historian, blink, stream, cursorPos, topChar, adjustedTopChar, viewportEndChar,
                    charsW, rowsH, timers, lastVerticalX, loaded >>

\* A remote removal of [p, q) is applied and its "op" event reaches queueRender.
RemoteRemove(p, q) ==
    /\ Edit
    /\ (pendingRender \/ Len(raf) < MaxJobs)
    /\ Mutate(RemoveText(segs, p, q))
    /\ QueueRender([remote |-> TRUE,
                    op |-> [type |-> "remove", pos1 |-> p, pos2 |-> q, len |-> 0]])
    /\ awaiting' = TRUE
    /\ last' = Quiet(FALSE)
    /\ UNCHANGED << hitTest, probe, historian, blink, stream, cursorPos, topChar, adjustedTopChar, viewportEndChar,
                    charsW, rowsH, timers, lastVerticalX, loaded >>

\* The "op" event of a local edit reaches queueRender.
DeliverLocal ==
    /\ loaded
    /\ stream # <<>>
    /\ (pendingRender \/ Len(raf) < MaxJobs)
    /\ QueueRender([remote |-> FALSE, op |-> Head(stream)])
    /\ stream' = Tail(stream)
    /\ awaiting' = TRUE
    /\ last' = Quiet(FALSE)
    /\ UNCHANGED << hitTest, probe, historian, blink, edits, segs, cursorPos, topChar, adjustedTopChar, viewportEndChar,
                    prevTopSegment, page, charsW, rowsH, timers, lastVerticalX, loaded >>

\* ------------------------------------------------------- key handlers
\* keypressHandler: a character key.
Keypress(ch) ==
    /\ Edit
    /\ GetLength(segs) < MaxLen
    /\ cursorPos + 1 <= MaxLen + MaxOut
    /\ Len(raf) < MaxJobs
    /\ Len(stream) < MaxStream
    /\ Mutate(InsertText(segs, << ch >>, cursorPos))
    /\ cursorPos' = cursorPos + 1
    /\ stream' = Append(stream, [type |-> "insert", pos1 |-> cursorPos, pos2 |-> 0, len |-> 1])
    /\ LocalQueueRender(Unclean(raf))
    /\ awaiting' = TRUE
    /\ last' = Quiet(FALSE)
    /\ UNCHANGED << hitTest, probe, historian, blink, topChar, adjustedTopChar, viewportEndChar,
                    charsW, rowsH, timers, lastVerticalX, loaded >>

\* keydownHandler, backspace
Backspace ==
    /\ Edit
    /\ cursorPos - 1 >= -MaxOut
    /\ Len(raf) < MaxJobs
    /\ Len(stream) < MaxStream
    /\ cursorPos' = cursorPos - 1
    /\ Mutate(RemoveText(segs, cursorPos - 1, cursorPos))
    /\ stream' = Append(stream, [type |-> "remove", pos1 |-> cursorPos - 1,
                                 pos2 |-> cursorPos, len |-> 0])
    /\ LocalQueueRender(Unclean(raf))
    /\ lastVerticalX' = -1
    /\ awaiting' = TRUE
    /\ last' = Quiet(FALSE)
    /\ UNCHANGED << hitTest, probe, historian, blink, topChar, adjustedTopChar, viewportEndChar,
                    charsW, rowsH, timers, loaded >>

\* keydownHandler, pageUp / pageDown: a 20 ms timer unless one is ticking.
\* A page key that schedules its timer whether or not one is ticking.
PageKeyAlways(up) ==
    /\ loaded
    /\ timers.pageTimers < 2
    /\ lastVerticalX' = -1
    /\ timers' = [timers EXCEPT !.ticking = TRUE, !.up = up, !.pageTimers = @ + 1]
    /\ last' = Quiet(FALSE)
    /\ UNCHANGED << hitTest, probe, historian, blink, edits, segs, stream, cursorPos, topChar, adjustedTopChar, viewportEndChar,
                    prevTopSegment, page, charsW, rowsH, pendingRender, raf, loaded,
                    awaiting >>

PageKey(up) ==
    /\ loaded
    /\ lastVerticalX' = -1
    /\ timers' = IF ~timers.ticking
                 THEN [timers EXCEPT !.ticking = TRUE, !.up = up, !.pageTimers = @ + 1]
                 ELSE timers
    /\ last' = Quiet(FALSE)
    /\ UNCHANGED << hitTest, probe, historian, blink, edits, segs, stream, cursorPos, topChar, adjustedTopChar, viewportEndChar,
                    prevTopSegment, page, charsW, rowsH, pendingRender, raf, loaded,
                    awaiting >>

\* scroll(up): the render it asks for, or None when it returns at once.
\* A variant of scroll that moves by the whole viewport; no specification
\* below uses it.
ScrollToPage(up) ==
    LET len == GetLength(segs)
        halfport == ViewportCharCount(charsW, rowsH)
    IN  IF (up /\ topChar = 0) \/ (~up /\ topChar > (len - halfport)) THEN None
        ELSE IF up THEN topChar - halfport ELSE topChar + halfport

ScrollTo(up) ==
    LET len == GetLength(segs)
        halfport == ViewportCharCount(charsW, rowsH) \div 2
    IN  IF (up /\ topChar = 0) \/ (~up /\ topChar > (len - halfport)) THEN None
        ELSE IF up THEN topChar - halfport ELSE topChar + halfport

ScrollRender(to, vis) ==
    Render(IF to = None THEN topChar ELSE to, FALSE, cursorPos, charsW, rowsH, vis)

\* The page-scroll timer fires: scroll(up), then ticking = false.
ScrollTimer ==
    /\ loaded
    /\ timers.pageTimers > 0
    /\ \E vis \in Paint :
          ScrollShow(ScrollRender(ScrollTo(timers.up), vis),
                    [timers EXCEPT !.pageTimers = @ - 1],
                    [timers EXCEPT !.ticking = FALSE, !.up = FALSE, !.pageTimers = @ - 1])
    /\ UNCHANGED << hitTest, probe, historian, edits, stream, charsW, rowsH, pendingRender, lastVerticalX, loaded >>

\* keydownHandler, home
Home ==
    /\ loaded
    /\ \E vis \in Paint : Show(Render(0, FALSE, 0, charsW, rowsH, vis))
    /\ lastVerticalX' = -1
    /\ UNCHANGED << hitTest, probe, historian, edits, stream, charsW, rowsH, pendingRender, timers, loaded >>

EndRender(tc, vis) == Render(tc, FALSE, tc, charsW, rowsH, vis)

\* keydownHandler, end
End ==
    /\ loaded
    /\ \E vis \in Paint : Show(EndRender(GetLength(segs) - (ViewportCharCount(charsW, rowsH) \div 2), vis))
    /\ lastVerticalX' = -1
    /\ UNCHANGED << hitTest, probe, historian, edits, stream, charsW, rowsH, pendingRender, timers, loaded >>

\* keydownHandler, rightArrow (d = 1) and leftArrow (d = -1)
Arrow(d) ==
    /\ loaded
    /\ cursorPos + d >= -MaxOut
    /\ cursorPos + d <= MaxLen + MaxOut
    /\ \E vis \in Paint : Show(Render(topChar, TRUE, cursorPos + d, charsW, rowsH, vis))
    /\ lastVerticalX' = -1
    /\ UNCHANGED << hitTest, probe, historian, edits, stream, charsW, rowsH, pendingRender, timers, loaded >>

\* ------------------------------------------------------ verticalMove
\* The block and span hosting the cursor's edit span, << >> when the edit span
\* is not in the page.
CursorHost ==
    LET hosts == {kj \in (1..Len(page)) \X (1..MaxLen + 1) :
                    kj[2] <= Len(page[kj[1]]) /\ page[kj[1]][kj[2]].cur}
    IN  IF hosts = {} THEN << >> ELSE CHOOSE kj \in hosts : TRUE

\* The block of the page that covers row r, 0 when none does.
DivAtRow(r) ==
    LET ks == {k \in 1..Len(page) :
                 DivBottom(page, k - 1, charsW) <= r /\ r < DivBottom(page, k, charsW)}
    IN  IF ks = {} THEN 0 ELSE CHOOSE k \in ks : TRUE

\* tseg.cachedLength of the segment a span refers to: its present length, or
\* the length it had when the span was made if it has left the sequence.
CachedLength(span) ==
    IF span.seg \in SegIds(segs) THEN Len(SegById(segs, span.seg).text) ELSE span.segLen

\* The cell of the edit span: its row in the page and its column.
HostCell(host) ==
    LET spans == page[host[1]]
        cell == Place(DivText(spans), charsW)[SpanFirst(spans, host[2])]
    IN  [row |-> DivBottom(page, host[1] - 1, charsW) + cell.row, col |-> cell.col]

\* The characters of block k drawn at row y, column x.
CellsAt(k, x, y) ==
    LET txt == DivText(page[k])
        pl == Place(txt, charsW)
        top == DivBottom(page, k - 1, charsW)
    IN  {i \in 1..Len(txt) : pl[i].row = y - top /\ pl[i].col = x /\ txt[i] # NL}

\* The offset in the sequence of character i0 of block k.
OffsetAt(spans, i0) ==
    LET j0 == CHOOSE j \in 1..Len(spans) : SpanFirst(spans, j) <= i0 /\ i0 <= SpanLast(spans, j)
    IN  spans[j0].segPos + (i0 - SpanFirst(spans, j0)) + spans[j0].offset

\* The hit test of verticalMove at column x of row y, inside block k.
ProbeAt(k, at, x) ==
    IF k = 0 THEN [moved |-> FALSE, pos |-> cursorPos, x |-> x]
    ELSE IF at = {}
         THEN [moved |-> TRUE,
               pos |-> page[k][Len(page[k])].segPos + CachedLength(page[k][Len(page[k])]) - 1,
               x |-> x]
    ELSE [moved |-> TRUE, pos |-> OffsetAt(page[k], CHOOSE i \in at : TRUE), x |-> x]

MoveTo(k, x, y) ==
    IF x < 0 \/ ~(y >= 0 /\ y <= rowsH - 2) THEN [moved |-> FALSE, pos |-> cursorPos, x |-> x]
    ELSE ProbeAt(k, IF k = 0 THEN {} ELSE CellsAt(k, x, y), x)

MoveFrom(cell, lineCount, savedX) ==
    MoveTo(DivAtRow(cell.row + lineCount), IF savedX # -1 THEN savedX ELSE cell.col,
           cell.row + lineCount)

\* verticalMove(lineCount): [moved, pos, x], x being the column it keeps in
\* lastVerticalX.  With the edit span outside the page its rectangle is empty
\* and the probe finds no span of the page (x = -2: left of the viewport).
VerticalMove(lineCount, savedX) ==
    IF CursorHost = << >>
    THEN [moved |-> FALSE, pos |-> cursorPos, x |-> IF savedX # -1 THEN savedX ELSE -2]
    ELSE MoveFrom(HostCell(CursorHost), lineCount, savedX)

\* The cursor after a vertical move: past the viewport's end it goes to the top.
MovedCursor(m) ==
    IF viewportEndChar # None /\ m.pos >= viewportEndChar THEN adjustedTopChar ELSE m.pos

VerticalRender(m, vis) ==
    IF m.moved THEN Render(topChar, TRUE, MovedCursor(m), charsW, rowsH, vis)
    ELSE Render(topChar, FALSE, cursorPos, charsW, rowsH, vis)

VerticalShow(m, vis) ==
    /\ Show(VerticalRender(m, vis))
    /\ lastVerticalX' = m.x

\* keydownHandler, upArrow (lineCount = -1) and downArrow (lineCount = 1)
VerticalArrow(lineCount) ==
    /\ loaded
    /\ \E vis \in Paint : VerticalShow(VerticalMove(lineCount, lastVerticalX), vis)
    /\ UNCHANGED << hitTest, probe, historian, edits, stream, charsW, rowsH, pendingRender, timers, loaded >>

\* ------------------------------------------------- wheel, resize, load
\* onmousewheel: inputDelta is wheelDelta / 6 for a notch of 120, else / 2.
InputDelta(wd) == IF wd = 120 \/ wd = -120 THEN wd \div 6 ELSE wd \div 2

Wheel(wd) ==
    /\ loaded
    /\ timers' = IF ~timers.wheelTicking
                 THEN [timers EXCEPT !.wheelTicking = TRUE,
                                     !.delta = rowsH * InputDelta(wd),
                                     !.wheelTimers = @ + 1]
                 ELSE timers
    /\ last' = Quiet(FALSE)
    /\ UNCHANGED << hitTest, probe, historian, blink, edits, segs, stream, cursorPos, topChar, adjustedTopChar, viewportEndChar,
                    prevTopSegment, page, charsW, rowsH, pendingRender, raf,
                    lastVerticalX, loaded, awaiting >>

\* The wheel timer fires: render(floor(topChar - delta)), then wheelTicking = false.
WheelTimer ==
    /\ loaded
    /\ timers.wheelTimers > 0
    /\ \E vis \in Paint :
          TimerShow(Render(topChar - timers.delta, FALSE, cursorPos, charsW, rowsH, vis),
                    [timers EXCEPT !.wheelTimers = @ - 1],
                    [timers EXCEPT !.wheelTicking = FALSE, !.delta = 0, !.wheelTimers = @ - 1])
    /\ UNCHANGED << hitTest, probe, historian, edits, stream, charsW, rowsH, pendingRender, lastVerticalX, loaded >>

\* flowContainer.onresize: updateGeometry, then render(this.topChar, true).
Resize(cw, ch) ==
    /\ loaded
    /\ << cw, ch >> # << charsW, rowsH >>
    /\ charsW' = cw
    /\ rowsH' = ch
    /\ \E vis \in Paint : Show(Render(topChar, TRUE, cursorPos, cw, ch, vis))
    /\ UNCHANGED << hitTest, probe, historian, edits, stream, pendingRender, timers, lastVerticalX, loaded >>

\* loadFinished: render(0, true)
LoadFinished ==
    /\ ~loaded
    /\ loaded' = TRUE
    /\ \E vis \in Paint : Show(Render(0, TRUE, cursorPos, charsW, rowsH, vis))
    /\ UNCHANGED << hitTest, probe, historian, edits, stream, charsW, rowsH, pendingRender, timers, lastVerticalX >>

\* ------------------------------------------------------ specification
KeyChars == {"a"}
RemoteTexts == { << "a", "a" >> }
WheelDeltas == {-120, -2, 2, 120}
Widths == 1..MaxW
Heights == 0..MaxH
InitDocs == { << >>, << [id |-> 1, text |-> << "a", SP, "a" >>] >> }

\* The view after its constructor: cursor at 0, topChar 0, nothing rendered.
InitWith(docs, ws, hs) ==
    /\ segs \in docs
    /\ stream = << >>
    /\ cursorPos = 0
    /\ topChar = 0
    /\ adjustedTopChar = None
    /\ viewportEndChar = None
    /\ prevTopSegment = None
    /\ page = << >>
    /\ charsW \in ws
    /\ rowsH \in hs
    /\ pendingRender = FALSE
    /\ raf = << >>
    /\ timers = [ticking |-> FALSE, up |-> FALSE, wheelTicking |-> FALSE, delta |-> 0,
                 pageTimers |-> 0, wheelTimers |-> 0]
    /\ lastVerticalX = -1
    /\ loaded = FALSE
    /\ edits = 0
    /\ awaiting = FALSE
    /\ last = Quiet(FALSE)

RemoteOps ==
    \/ \E txt \in RemoteTexts, p \in 0..MaxLen : p <= GetLength(segs) /\ RemoteInsert(txt, p)
    \/ \E p \in 0..MaxLen, q \in 1..MaxLen :
          p < q /\ q <= GetLength(segs) /\ RemoteRemove(p, q)

\* The scheduler and the cursor: key handlers, remote ops and render jobs on a
\* viewport of fixed size.
Init == InitWith(InitDocs, {MaxW}, {MaxH}) /\ hitTest = TRUE /\ probe = NoProbe /\ blink = NoBlink /\ historian = NoCall(FALSE, << >>)

Next ==
    \/ LoadFinished
    \/ \E ch \in KeyChars : Keypress(ch)
    \/ Backspace
    \/ Home
    \/ End
    \/ \E d \in {-1, 1} : Arrow(d)
    \/ \E lc \in {-1, 1} : VerticalArrow(lc)
    \/ RemoteOps
    \/ DeliverLocal
    \/ RunJob

Spec == Init /\ [][Next]_vars

\* RunJob as a step on raf: the oldest job leaves.  In a behaviour of Spec the
\* Refresh steps are the RunJob steps, and both are enabled when a job is
\* outstanding.
Refresh == raf # << >> /\ \E q \in {Tail(raf), Unclean(Tail(raf))} : raf' = q

\* The same with the display refreshing: a callback handed to
\* requestAnimationFrame is run.
LiveSpec == Spec /\ WF_raf(Refresh)

\* The view alone: scrolling, the wheel, resizing and the cursor keys over a
\* document that does not change, in viewports of every size.
ViewDocs ==
    { << >>,
      << [id |-> 1, text |-> << "a", SP, "a" >>] >>,
      << [id |-> 1, text |-> << "a", NL >>], [id |-> 2, text |-> << "a", "a" >>] >> }

ViewInit == InitWith(ViewDocs, Widths, Heights) /\ hitTest = TRUE /\ probe = NoProbe /\ blink = NoBlink /\ historian = NoCall(FALSE, << >>)

ViewNext ==
    \/ LoadFinished
    \/ \E up \in BOOLEAN : PageKey(up)
    \/ ScrollTimer
    \/ \E wd \in WheelDeltas : Wheel(wd)
    \/ WheelTimer
    \/ \E cw \in Widths, ch \in Heights : Resize(cw, ch)
    \/ Home
    \/ End
    \/ \E d \in {-1, 1} : Arrow(d)
    \/ \E lc \in {-1, 1} : VerticalArrow(lc)

ViewSpec == ViewInit /\ [][ViewNext]_vars

\* The view with a hit test that finds no caret (the probed points lie outside
\* the window) as well as with one that does.  The up and down arrow keys are
\* left out: verticalMove probes with document.elementFromPoint.
FaultDocs ==
    { << [id |-> 1, text |-> << "a", SP, "a" >>] >>,
      << [id |-> 1, text |-> << "a", NL >>], [id |-> 2, text |-> << "a", "a" >>] >> }

FaultInit == InitWith(FaultDocs, Widths, Heights) /\ hitTest \in BOOLEAN /\ probe = NoProbe /\ blink = NoBlink /\ historian = NoCall(FALSE, << >>)

FaultNext ==
    \/ LoadFinished
    \/ \E up \in BOOLEAN : PageKey(up)
    \/ ScrollTimer
    \/ \E cw \in Widths, ch \in Heights : Resize(cw, ch)
    \/ Home
    \/ End
    \/ \E d \in {-1, 1} : Arrow(d)

FaultSpec == FaultInit /\ [][FaultNext]_vars

\* The view over documents with a token longer than the viewport is wide, in
\* viewports two rows high: the cursor keys and scrolling.
ClipDocs ==
    { << [id |-> 1, text |-> << "a", "b", "c" >>] >>,
      << [id |-> 1, text |-> << "a", SP, "b", "c", "d" >>] >>,
      << [id |-> 1, text |-> << "a" >>],
         [id |-> 2, text |-> << "b", "c", "d", "e", "f", "g" >>] >> }

ClipWidths == {1, 3}

ClipInit == InitWith(ClipDocs, ClipWidths, {2}) /\ hitTest = TRUE /\ probe = NoProbe /\ blink = NoBlink /\ historian = NoCall(FALSE, << >>)

ClipNext ==
    \/ LoadFinished
    \/ \E up \in BOOLEAN : PageKey(up)
    \/ ScrollTimer
    \/ Home
    \/ End
    \/ \E d \in {-1, 1} : Arrow(d)

ClipSpec == ClipInit /\ [][ClipNext]_vars

\* The document "hello world\nfoo bar" held in one segment or in two, in a
\* viewport 11 cells wide and one row high, with the cursor moved by the keys.
Hello ==
    << "h", "e", "l", "l", "o", SP, "w", "o", "r", "l", "d", NL,
       "f", "o", "o", SP, "b", "a", "r" >>

HelloDocs ==
    { << [id |-> 1, text |-> Hello] >> }
    \cup { << [id |-> 1, text |-> SubSeq(Hello, 1, k)],
              [id |-> 2, text |-> SubSeq(Hello, k + 1, Len(Hello))] >> :
            k \in 1..(Len(Hello) - 1) }

HelloInit == InitWith(HelloDocs, {11}, {1}) /\ hitTest = TRUE /\ probe = NoProbe /\ blink = NoBlink /\ historian = NoCall(FALSE, << >>)

HelloNext ==
    \/ LoadFinished
    \/ Home
    \/ \E d \in {-1, 1} : Arrow(d)

HelloSpec == HelloInit /\ [][HelloNext]_vars

\* The search of pixelsAtOffset on its own: a span of up to MaxRun glyphs on up
\* to MaxRects lines, an estimate w and an offset in [0, length of the run].
Runs ==
    { << ws >> : ws \in UNION { [1..n -> GlyphWidths] : n \in 1..MaxRun } }
    \cup IF MaxRects < 2 THEN {}
         ELSE { << a, << g >> >> :
                  a \in UNION { [1..n -> GlyphWidths] : n \in 1..(MaxRun - 1) },
                  g \in GlyphWidths }

Calls ==
    UNION { { Call(lines, w, offset) :
                w \in AvgWidths, offset \in 0..RectFirst(lines, Len(lines)) } :
            lines \in Runs }

PixelInit == InitWith({ << >> }, {MaxW}, {MaxH}) /\ hitTest = TRUE /\ probe \in Calls /\ blink = NoBlink /\ historian = NoCall(FALSE, << >>)

ProbeTo(q) ==
    /\ probe' = q
    /\ UNCHANGED << segs, stream, cursorPos, topChar, adjustedTopChar, viewportEndChar,
                    prevTopSegment, page, charsW, rowsH, pendingRender, raf, timers,
                    lastVerticalX, loaded, hitTest, blink, historian, edits, awaiting, last >>

\* pixelsAtOffset is entered.
PixelsAtOffset == probe.pc = "call" /\ ProbeTo(Entered(probe))

\* while (lo <= hi) { ... } and the statements after it
RectSearch ==
    /\ probe.pc = "rects"
    /\ ProbeTo(IF probe.lo <= probe.hi THEN RectTurn(probe) ELSE RectChosen(probe))

\* while (diffOffset !== 0) { ... }
Bracket == probe.pc = "bracket" /\ ProbeTo(BracketTurn(probe))

\* for (x = under; x <= over; x++) { ... }
Scan == probe.pc = "scan" /\ ProbeTo(ScanTurn(probe))

PixelNext ==
    \/ PixelsAtOffset
    \/ RectSearch
    \/ Bracket
    \/ Scan

PixelSpec == PixelInit /\ [][PixelNext]_vars

\* The call runs to its end: nothing else runs on the thread meanwhile.
PixelLive == PixelSpec /\ WF_vars(PixelNext)

\* The view with the blink task followed: the marker's visibility at paint time
\* is what the task left, and the blinker's timer fires between the keys.
BlinkInit ==
    /\ InitWith(InitDocs, {MaxW}, {MaxH})
    /\ hitTest = TRUE
    /\ probe = NoProbe
    /\ blink = [NoBlink EXCEPT !.followed = TRUE]
    /\ historian = NoCall(FALSE, << >>)

\* The blinker's timer fires.
Blinker ==
    /\ blink.followed
    /\ blink.pending > 0
    /\ blink' = Blinked(blink)
    /\ last' = Quiet(FALSE)
    /\ UNCHANGED << segs, stream, cursorPos, topChar, adjustedTopChar, viewportEndChar,
                    prevTopSegment, page, charsW, rowsH, pendingRender, raf, timers,
                    lastVerticalX, loaded, hitTest, probe, historian, edits, awaiting >>

BlinkNext ==
    \/ LoadFinished
    \/ Home
    \/ End
    \/ \E d \in {-1, 1} : Arrow(d)
    \/ Blinker

BlinkSpec == BlinkInit /\ [][BlinkNext]_vars

\* The same with timers that fire: a blinker timer outstanding is run.
BlinkLive == BlinkSpec /\ WF_vars(Blinker)

\* The Historian alone: one call of getCommits or of getHeader, and the
\* settling of its requests in every order and with every outcome.
HistorianInit ==
    /\ InitWith({ << >> }, {MaxW}, {MaxH})
    /\ hitTest = TRUE
    /\ probe = NoProbe
    /\ blink = NoBlink
    /\ \E api \in BOOLEAN, tree \in Trees : historian = NoCall(api, tree)

HistorianTo(q) ==
    /\ historian' = q
    /\ UNCHANGED << segs, stream, cursorPos, topChar, adjustedTopChar, viewportEndChar,
                    prevTopSegment, page, charsW, rowsH, pendingRender, raf, timers,
                    lastVerticalX, loaded, hitTest, probe, blink, edits, awaiting, last >>

\* getCommits(sha, count): the /commits request is sent.
GetCommits ==
    /\ historian.pc = "idle"
    /\ HistorianTo([historian EXCEPT !.pc = "commits", !.sent = << "commits" >>,
                                     !.replies = << Pending >>])

\* The /commits request has settled with reply: the catch decides the call.
CommitsReply(reply) ==
    HistorianTo([historian EXCEPT !.pc = "done", !.replies = << reply >>,
                                  !.result = Caught(reply)])

CommitsSettled ==
    /\ historian.pc = "commits"
    /\ \/ \E v \in { << >>, << "commit" >> } : CommitsReply(Resolved(v))
       \/ \E e \in Errors : CommitsReply(Rejected(e))

\* getHeader(sha): the /headers request with historianApi, else
\* getHeaderDirect's request for the recursive tree.
GetHeader ==
    /\ historian.pc = "idle"
    /\ HistorianTo([historian EXCEPT
                       !.pc = IF historian.historianApi THEN "headers" ELSE "tree",
                       !.sent = IF historian.historianApi THEN << "headers" >>
                                ELSE << "tree" >>,
                       !.replies = << Pending >>])

\* The promise of the /headers request is what getHeader returned.
HeadersReply(reply) ==
    HistorianTo([historian EXCEPT !.pc = "done", !.replies = << reply >>,
                                  !.result = reply])

HeadersSettled ==
    /\ historian.pc = "headers"
    /\ \/ HeadersReply(Resolved("header"))
       \/ \E e \in Errors : HeadersReply(Rejected(e))

\* The tree request settles.  Rejected, the await throws and the call is
\* rejected; resolved, a blob request is sent for each entry chosen (a blob
\* request is named by the sha it asks for) and the call awaits them all.
TreeSettled ==
    /\ historian.pc = "tree"
    /\ \/ \E e \in Errors :
             HistorianTo([historian EXCEPT !.pc = "done", !.replies = << Rejected(e) >>,
                                           !.result = Rejected(e)])
       \/ LET blobsP == BlobsP(historian.tree, 1)
               replies == << Resolved("tree") >> \o [k \in 1..Len(blobsP) |-> Pending]
           IN  HistorianTo([historian EXCEPT
                              !.pc = IF blobsP = << >> THEN "done" ELSE "blobs",
                              !.sent = << "tree" >> \o blobsP,
                              !.replies = replies,
                              !.result = All(replies, Pending, historian.tree)])

\* The blob request at position k has settled with reply.
BlobReply(k, reply) ==
    LET replies == [historian.replies EXCEPT ![k] = reply]
        first == IF historian.result.state = "rejected" THEN historian.result ELSE reply
    IN  HistorianTo([historian EXCEPT
                       !.pc = IF \E n \in 2..Len(replies) : replies[n].state = "pending"
                              THEN "blobs" ELSE "done",
                       !.replies = replies,
                       !.result = All(replies, first, historian.tree)])

\* One of the blob requests outstanding settles.
BlobSettled ==
    /\ historian.pc = "blobs"
    /\ \E k \in 2..Len(historian.sent) :
          /\ historian.replies[k].state = "pending"
          /\ \/ BlobReply(k, Resolved([sha |-> historian.sent[k]]))
             \/ \E e \in Errors : BlobReply(k, Rejected(e))

HistorianNext ==
    \/ GetCommits
    \/ CommitsSettled
    \/ GetHeader
    \/ HeadersSettled
    \/ TreeSettled
    \/ BlobSettled

HistorianSpec == HistorianInit /\ [][HistorianNext]_vars

\* ------------------------------------------------------------ properties
\* A step is the callback of the oldest outstanding job: only that shortens raf.
JobStep == raf # << >> /\ Len(raf') < Len(raf)

RemoteJobStep(type) ==
    JobStep /\ Head(raf).msg.remote /\ Head(raf).msg.op.type = type

\* A step is the key press handler: only that adds an insertion to the stream.
KeyStep == Len(stream') > Len(stream) /\ stream'[Len(stream')].type = "insert"

\* C1: when a render job processes a remote insertion of n characters at p
\* with the cursor at c, the cursor when layout starts is c + n if p <= c and
\* is still c if p > c.
C1_RebaseInsert ==
    [][RemoteJobStep("insert") =>
          last'.lc = IF Head(raf).msg.op.pos1 <= cursorPos
                     THEN cursorPos + Head(raf).msg.op.len
                     ELSE cursorPos]_vars

\* A job for a remote insertion at or before the cursor has run.
C1_Shifted == last.job = "insert" /\ last.lc > last.c0

\* C2: when a render job processes a remote removal of [p, q) with the cursor
\* at c, the cursor when layout starts is c - (q - p) if q <= c, is p if
\* p <= c < q, and is still c if c < p.
C2_RebaseRemove ==
    [][RemoteJobStep("remove") =>
          last'.lc = IF Head(raf).msg.op.pos2 <= cursorPos
                     THEN cursorPos - (Head(raf).msg.op.pos2 - Head(raf).msg.op.pos1)
                     ELSE IF Head(raf).msg.op.pos1 <= cursorPos
                     THEN Head(raf).msg.op.pos1
                     ELSE cursorPos]_vars

\* A job for a remote removal that moved the cursor has run.
C2_Pulled == last.job = "remove" /\ last.lc < last.c0

\* C3: when a render job starts layout, cursor.pos is the fold of the rebase
\* rule over every remote op delivered since the job was queued (the cursor
\* not having moved otherwise).
C3_FoldAtLayout == last.fold # None => last.lc = last.fold

\* C4: no layout pass runs while a remote op has been delivered to the view
\* and its rebase has not been applied to cursor.pos.
C4_RebaseBeforeLayout == last.layout => ~Unrebased

\* C5: at most one render job is outstanding at any time.
C5_OneJob == Len(raf) <= 1

\* C6: in every reachable state 0 <= cursor.pos <= the length of the sequence.
C6_CursorInRange == 0 <= cursorPos /\ cursorPos <= GetLength(segs)

\* C7: a character key pressed with the cursor at c hands the sequence the
\* insertion of one character at offset c and leaves the cursor at c + 1 in
\* the handler itself, and a job of local origin (the refresh the key handler
\* asks for, or the notification of this client's own edit) starts layout with
\* the cursor where it found it.
C7_LocalKeystroke ==
    [][/\ KeyStep =>
            /\ cursorPos' = cursorPos + 1
            /\ stream'[Len(stream')].pos1 = cursorPos
            /\ stream'[Len(stream')].len = 1
       /\ (JobStep /\ ~Head(raf).msg.remote) => last'.lc = cursorPos]_vars

\* The job queued for the notification of this client's own insertion has run.
C7_OwnNotificationRendered == last.job = "typed" /\ last.lc = last.c0

\* C8: with the display refreshing, every notification is followed by a
\* layout pass that runs after the notification was delivered.
C8_EventuallyLaidOut == awaiting ~> ~awaiting

\* A job has run its layout pass after an edit, and no notification awaits one.
C8_Served == edits > 0 /\ last.job # "none" /\ ~awaiting

\* C9: in every reachable state 0 <= topChar <= the length of the sequence.
C9_TopCharInRange == 0 <= topChar /\ topChar <= GetLength(segs)

\* C10: after every completed layout pass, topChar <= viewportEndChar (taken
\* to hold while viewportEndChar is not a number).
C10_TopBeforeEnd == (last.layout /\ viewportEndChar # None) => topChar <= viewportEndChar

\* The spans of the page, block after block.
RECURSIVE PageSpans(_)
PageSpans(divs) == IF divs = << >> THEN << >> ELSE Head(divs) \o PageSpans(Tail(divs))

\* The offset in the sequence just after the last character of a span.
SpanEnd(span) == span.segPos + span.offset + Len(span.text)

C12_EmptyPassEnd ==
    (last.layout /\ PageSpans(page) = << >>) => viewportEndChar = topChar + last.pass.chars

\* C13: after a layout pass, if no span claimed the cursor or cursor.pos
\* exceeded viewportEndChar, cursor.pos is the offset of the first character of
\* the page and the page's first span holds the cursor; otherwise cursor.pos
\* is as the traversal left it.
C13_Placement ==
    last.layout =>
        IF ~last.pass.claimed \/ (viewportEndChar # None /\ last.pass.cin > viewportEndChar)
        THEN PageSpans(page) # << >> =>
                 /\ cursorPos = PageSpans(page)[1].segPos + PageSpans(page)[1].offset
                 /\ PageSpans(page)[1].cur
        ELSE cursorPos = last.pass.cin

Again(vis) == Render(topChar, TRUE, cursorPos, charsW, rowsH, vis)

Same(r) ==
    /\ ClearCur(r.page) = ClearCur(page)
    /\ r.topChar = topChar
    /\ r.adjustedTopChar = adjustedTopChar
    /\ r.viewportEndChar = viewportEndChar
    /\ r.cursorPos = cursorPos

\* C15: after a layout pass, rendering again at the same topChar with the
\* sequence unchanged gives the same blocks and spans and the same topChar,
\* adjustedTopChar, viewportEndChar and cursor.pos (for the cursor shown or
\* hidden, whichever the first pass met).
C15_Idempotent == last.layout => \E vis \in BOOLEAN : Same(Again(vis))

\* A step is a local edit: only a key handler adds to the stream, and what it
\* adds is the call it made on the sequence.
EditStep == Len(stream') > Len(stream)

\* C16: every insertText / removeText a key handler issues has its offsets
\* inside [0, length] of the sequence it is called on.
C16_OffsetsInRange ==
    [][EditStep =>
          /\ 0 <= stream'[Len(stream')].pos1
          /\ stream'[Len(stream')].pos1 <= GetLength(segs)
          /\ stream'[Len(stream')].type = "remove" =>
                 stream'[Len(stream')].pos2 <= GetLength(segs)]_vars

\* C17: a hit test that finds no caret never ends a layout pass with a
\* failure: every pass completes.
C17_MissAbsorbed == ~last.pass.failed

\* C18: when a layout pass fails part-way, the page after it is the page
\* before it.
C18_KeepsLastPage == [][last'.pass.failed => page' = page]_vars

\* C19: a step that runs a layout pass issues no insertText or removeText: it
\* leaves the sequence as it was and adds no edit to the stream.
C19_NoEditInTraversal == [][last'.layout => (segs' = segs /\ stream' = stream)]_vars

\* A layout pass has run over a sequence that has been edited.
C19_LaidOutAfterEdit == last.layout /\ edits > 0 /\ PageSpans(page) # << >>

\* A step is the page-scroll timer's callback, scroll(timers.up).
ScrollStep == last'.scroll

Halfport == ViewportCharCount(charsW, rowsH) \div 2

\* The view is as it was and no layout pass ran.
ViewKept ==
    /\ UNCHANGED << topChar, adjustedTopChar, viewportEndChar, cursorPos, page >>
    /\ ~last'.layout

C21_RoundTrip ==
    probe.pc = "done" => XyOffset(probe.lines, probe.best, probe.left) = probe.offset

\* The call has ended, by a return or by an exception.
Ended == probe.pc \in {"done", "thrown"}

\* C27: on a run whose hit-test map is monotone non-decreasing the search of
\* pixelsAtOffset ends, and its linear scan makes at most the bracket's width
\* plus one probes.
C27_Terminates ==
    /\ <>Ended
    /\ [](probe.scanned <= Max(0, probe.over - probe.under + 1))

\* C22: for the document "hello world\nfoo bar" with topChar = 0 in a viewport
\* 11 characters wide and one line high, a layout pass renders "hello world"
\* as the page's line and sets viewportEndChar to 11.
C22_HelloWorld ==
    (last.layout /\ topChar = 0) =>
        /\ viewportEndChar = 11
        /\ Substring(DivText(PageSpans(page)), 0, 11) = SubSeq(Hello, 1, 11)
        /\ Len(DivText(PageSpans(page))) <= 12

White(c) == c = SP \/ c = NL

\* The span clipped in the pass held white space at or before the point the
\* probe gave (offsets counted in the span).
SpaceBefore(c) == \E i \in 0..c.at : White(CharAt(c.text, i))

\* C23: when pruning clips the overflowing span, the cut falls before a white
\* space character at or before the overflow point if the span has one, and
\* stays at the overflow point (a hard break) if it has none.
C23_CutAtSpace ==
    last.pass.clip # NoClip =>
        IF SpaceBefore(last.pass.clip)
        THEN /\ last.pass.clip.cut <= last.pass.clip.at
             /\ White(CharAt(last.pass.clip.text, last.pass.clip.cut))
        ELSE last.pass.clip.cut = last.pass.clip.at

\* The text of the page, span after span.
PageText == DivText(PageSpans(page))

\* C24: after a pass that clipped the overflowing span, the page's text is one
\* contiguous range of the document starting at adjustedTopChar: no character
\* twice, none skipped.
C24_Contiguous ==
    (last.layout /\ last.pass.clip # NoClip) =>
        PageText = Substring(DocText(segs), adjustedTopChar, adjustedTopChar + Len(PageText))

\* topChar falls inside a segment, past its first character.
TopInside ==
    \E i \in 1..Len(segs) :
        /\ GetOffset(segs, segs[i].id) < topChar
        /\ topChar < GetOffset(segs, segs[i].id) + Len(segs[i].text)

\* The document offset of the first character of the page.
FirstChar == PageSpans(page)[1].segPos + PageSpans(page)[1].offset

\* C25: after a layout pass whose topChar falls inside a segment the page
\* begins at the start of the document or just after a white space character.
C25_WordStart ==
    (last.layout /\ TopInside /\ PageSpans(page) # << >>) =>
        FirstChar = 0 \/ White(CharAt(DocText(segs), FirstChar - 1))

\* The spans of the page that host the cursor's edit span.
Hosts == { k \in 1..Len(PageSpans(page)) : PageSpans(page)[k].cur }

\* cursor.pos, as the traversal had it, lies inside the range of a span of the
\* page.
CursorInPage ==
    \E k \in 1..Len(PageSpans(page)) :
        /\ PageSpans(page)[k].segPos + PageSpans(page)[k].offset <= last.pass.cin
        /\ last.pass.cin < SpanEnd(PageSpans(page)[k])

\* The offsets at which the page breaks a segment into two spans.
SplitPoints ==
    { PageSpans(page)[k + 1].segPos + PageSpans(page)[k + 1].offset :
        k \in { j \in 1..(Len(PageSpans(page)) - 1) :
                  PageSpans(page)[j].seg = PageSpans(page)[j + 1].seg } }

C28_PendingIffJob == pendingRender <=> (raf # << >>)

\* C29: after every completed layout pass over a non-empty document,
\* adjustedTopChar <= cursor.pos <= viewportEndChar.
C29_CursorInView ==
    (last.layout /\ GetLength(segs) > 0) =>
        adjustedTopChar <= cursorPos /\ cursorPos <= viewportEndChar

\* The tops a handler can ask render for: below the document, inside it, past it.
Tops == (0 - MaxOut)..(MaxLen + MaxOut)

\* render(t) with the changed flag off, called in the current state.
Plain(t, vis) == Render(t, FALSE, cursorPos, charsW, rowsH, vis)

\* C30: render(t) without the changed flag leaves topChar, viewportEndChar,
\* cursor.pos and the page as they are, and runs no layout pass, when t is the
\* current topChar or when the current topChar is 0 and t <= 0; for every other
\* t it runs a layout pass.
C30_RenderNoOp ==
    \A t \in Tops, vis \in BOOLEAN :
        IF t = topChar \/ (topChar = 0 /\ t <= 0)
        THEN /\ Plain(t, vis).pass = NoPass
             /\ Plain(t, vis).topChar = topChar
             /\ Plain(t, vis).viewportEndChar = viewportEndChar
             /\ Plain(t, vis).cursorPos = cursorPos
             /\ Plain(t, vis).page = page
        ELSE Plain(t, vis).pass # NoPass

\* End was pressed with the view already at the last half page: it set the
\* cursor to that top and called render with the current topChar; no pass ran.
C30_SameTop ==
    /\ loaded
    /\ ~last.layout
    /\ ~last.scroll
    /\ ~timers.ticking
    /\ topChar > 0
    /\ topChar = GetLength(segs) - Halfport
    /\ cursorPos = topChar

\* A step leaves no more page-scroll timers outstanding than it found while
\* ticking was set, and no more wheel timers while wheelTicking was set.
NoFurtherTimer ==
    /\ timers.ticking => timers'.pageTimers <= timers.pageTimers
    /\ timers.wheelTicking => timers'.wheelTimers <= timers.wheelTimers

\* A step that clears a flag is the firing of that flag's timer, whose call
\* of scroll or render has returned.
ClearedByTimer ==
    /\ (timers.ticking /\ ~timers'.ticking) =>
          /\ timers'.pageTimers = timers.pageTimers - 1
          /\ last'.scroll
          /\ ~last'.pass.failed
    /\ (timers.wheelTicking /\ ~timers'.wheelTicking) =>
          /\ timers'.wheelTimers = timers.wheelTimers - 1
          /\ last'.job = "none"
          /\ ~last'.pass.failed

\* C31: at most one page-scroll timer and at most one wheel timer are
\* outstanding at any time; a page key arriving while ticking is set and a
\* wheel event arriving while wheelTicking is set schedule nothing; and a flag
\* is cleared only by the firing of its own timer, after the timer's call of
\* scroll or render has returned.
C31_OneTimer ==
    /\ [](timers.pageTimers <= 1 /\ timers.wheelTimers <= 1)
    /\ [][NoFurtherTimer /\ ClearedByTimer]_vars

\* Both flags are set with one timer outstanding for each, and the last step
\* was a page key or a wheel event.
C31_BothTicking ==
    /\ last = Quiet(FALSE)
    /\ timers.ticking
    /\ timers.wheelTicking
    /\ timers.pageTimers = 1
    /\ timers.wheelTimers = 1

\* A step is a run of the blinker.
BlinkStep == blink'.toggles = blink.toggles + 1

\* A step is a layout pass that called Cursor.assign.
AssignStep == last'.pass.assigned

\* The blink task has stopped with the marker shown.
Stopped == blink.pending = 0 /\ blink.visible

\* C32: a run of the blinker changes the marker's visibility (and the task's
\* own counters) and leaves cursor.pos, the page and the view's bounds alone;
\* at most one blinker timer is outstanding; the blinker runs at most
\* BlinkCount + 1 times after an assign; and with timers that fire, unless
\* assign is called again and again, the task stops with the marker visible
\* and stays so.
C32_Blink ==
    /\ [](blink.pending <= 1 /\ blink.toggles <= BlinkCount + 1)
    /\ [][BlinkStep => UNCHANGED << cursorPos, page, topChar, adjustedTopChar,
                                     viewportEndChar, segs >>]_vars
    /\ ([]<><<AssignStep>>_vars \/ <>[]Stopped)

\* The task ran its full count after an assign and stopped, marker shown.
C32_Stopped ==
    /\ blink.followed
    /\ blink.blinkTimer = "spent"
    /\ blink.toggles = BlinkCount + 1
    /\ Stopped

\* C33: getCommits resolves to the empty list when the /commits request is
\* rejected with 400, is rejected with the same error when the request is
\* rejected with anything else, and resolves to the response otherwise.
C33_Commits ==
    (historian.pc = "done" /\ historian.sent[1] = "commits") =>
        LET reply == historian.replies[1]
            result == historian.result
        IN  IF reply.state = "rejected"
            THEN IF reply.value = 400
                 THEN result.state = "resolved" /\ result.value = << >>
                 ELSE result.state = "rejected" /\ result.value = reply.value
            ELSE result.state = "resolved" /\ result.value = reply.value

\* The /commits request was rejected with 400 and the call resolved.
C33_Empty ==
    /\ historian.pc = "done"
    /\ historian.sent[1] = "commits"
    /\ historian.replies[1].state = "rejected"
    /\ historian.replies[1].value = 400
    /\ historian.result.state = "resolved"

\* The entry at position i of the tree is a blob whose path is some prefix
\* followed by .attributes, .blobs, .messages or header.
Wanted(i) ==
    /\ historian.tree[i].type = "blob"
    /\ \E ending \in { DotAttributes, DotBlobs, DotMessages, Header } :
          \E n \in 0..Len(historian.tree[i].path) :
              historian.tree[i].path = SubSeq(historian.tree[i].path, 1, n) \o ending

\* The blob requests sent are one for each wanted entry, in tree order.
OnePerWanted ==
    /\ \A k \in 2..Len(historian.sent) : Wanted(historian.sent[k])
    /\ \A k \in 2..(Len(historian.sent) - 1) : historian.sent[k] < historian.sent[k + 1]
    /\ \A i \in 1..Len(historian.tree) :
          Wanted(i) => \E k \in 2..Len(historian.sent) : historian.sent[k] = i

\* C34: with historianApi getHeader sends the /headers request and nothing
\* else; without it the tree request, and once that has resolved exactly one
\* blob request for each entry of type blob whose path ends with .attributes,
\* .blobs, .messages or header; it resolves to the blobs in tree order, and is
\* rejected if the tree request or any blob request is rejected.
C34_Header ==
    (historian.pc \notin {"idle", "commits"} /\ historian.sent[1] # "commits") =>
        /\ historian.historianApi =>
              /\ historian.sent = << "headers" >>
              /\ historian.pc = "done" => historian.result = historian.replies[1]
        /\ ~historian.historianApi =>
              /\ historian.sent[1] = "tree"
              /\ IF historian.replies[1].state = "resolved" THEN OnePerWanted
                  ELSE Len(historian.sent) = 1
              /\ historian.result.state = "resolved" =>
                    /\ historian.pc = "done"
                    /\ Len(historian.result.value.blobs) = Len(historian.sent) - 1
                    /\ \A k \in 1..Len(historian.result.value.blobs) :
                          historian.result.value.blobs[k].sha = historian.sent[k + 1]
              /\ (\E k \in 1..Len(historian.replies) :
                     historian.replies[k].state = "rejected") =>
                    historian.result.state = "rejected"

\* getHeaderDirect resolved over a tree of two entries, having skipped the
\* first and asked for the blob of the second.
C34_Skipped ==
    /\ ~historian.historianApi
    /\ historian.pc = "done"
    /\ Len(historian.tree) = 2
    /\ Len(historian.sent) = 2
    /\ historian.sent[1] = "tree"
    /\ historian.sent[2] = 2
    /\ historian.result.state = "resolved"

====
